---- MODULE Spec2Model ----
(***************************************************************************)
(* Model of the elaboration driver of src/code/ast_gen.cpp:                *)
(* runVerilatorAST builds a command string, hands it to std::system and    *)
(* reports success by a bool; the driver then loads the markup file into   *)
(* the file-scope document astDoc.                                         *)
(*                                                                         *)
(* A string is a sequence of atoms; the atom " " is the space character    *)
(* and every other atom is a run of non-space characters.  Concatenation   *)
(* of strings is concatenation of sequences, and the shell that            *)
(* std::system starts splits the command into words at the spaces.         *)
(***************************************************************************)
EXTENDS Integers, Sequences, FiniteSets, TLC

\* Number of pipeline invocations (threads running the driver).
NumRuns == 2

Runs == 1..NumRuns

SP == " "

\* ------------------------------------------------------------------ inputs

\* Values the parameter verilogFile of runVerilatorAST ranges over.  The
\* driver of line 24 passes "design.v".
SrcPaths == { <<"design.v">>, <<"nonexistent.v">> }

\* Values the parameter astXmlFile ranges over.  The driver passes "ast.xml".
OutPaths == { <<"ast.xml">>, <<"out.xml">>, <<"my", SP, "ast.xml">>,
              <<"nodir/ast.xml">> }

\* Hardware description files present on disk.
ExistingSources == { <<"design.v">> }

\* Output paths whose parent directory does not exist.
MissingParent == { <<"nodir/ast.xml">> }

SourceExists(path) == path \in ExistingSources

ParentDirExists(path) == path \notin MissingParent

\* ------------------------------------------------------- command building

\* The command as the six arguments it is made of, before they are joined.
ArgList(verilogFile, astXmlFile) ==
    << <<"verilator">>, <<"--xml-only">>, <<"--xml-output">>,
       astXmlFile, verilogFile, <<"-Wno-fatal">> >>

\* Lines 9-13: cmd = "verilator --xml-only --xml-output " + astXmlFile
\*             + " " + verilogFile;  cmd += " -Wno-fatal".
BuildCommand(verilogFile, astXmlFile) ==
    <<"verilator", SP, "--xml-only", SP, "--xml-output", SP>>
        \o astXmlFile \o <<SP>> \o verilogFile \o <<SP, "-Wno-fatal">>

RECURSIVE SplitWords(_, _, _)
SplitWords(s, cur, acc) ==
    IF s = <<>>
    THEN IF cur = <<>> THEN acc ELSE Append(acc, cur)
    ELSE IF Head(s) = SP
         THEN SplitWords(Tail(s), <<>>,
                         IF cur = <<>> THEN acc ELSE Append(acc, cur))
         ELSE SplitWords(Tail(s), Append(cur, Head(s)), acc)

\* Line 15: std::system(cmd) runs "sh -c cmd"; the shell splits the command
\* into words at unquoted spaces and passes them to the program as argv.
ShellSplit(cmd) == SplitWords(cmd, <<>>, <<>>)

\* ---------------------------------------------------------- the elaborator

Flags == { <<"--xml-only">>, <<"--xml-output">>, <<"-Wno-fatal">> }

\* Position of --xml-output in argv (0 when absent).
XmlOutputPos(argv) ==
    IF \E i \in 1..Len(argv) : argv[i] = <<"--xml-output">>
    THEN CHOOSE i \in 1..Len(argv) :
            /\ argv[i] = <<"--xml-output">>
            /\ \A j \in 1..(i-1) : argv[j] # <<"--xml-output">>
    ELSE 0

\* The file the elaborator writes: the word that follows --xml-output.
ElabOutput(argv) ==
    LET p == XmlOutputPos(argv)
    IN  IF p > 0 /\ p < Len(argv) THEN argv[p + 1] ELSE <<>>

\* The files the elaborator reads: every other word that is no flag.
ElabSources(argv) ==
    { argv[i] : i \in { j \in 2..Len(argv) :
                          /\ argv[j] \notin Flags
                          /\ j # XmlOutputPos(argv) + 1 } }

\* The elaborator can succeed: it has an input, every input exists and the
\* output can be created.
ElabCanSucceed(argv) ==
    /\ ElabSources(argv) # {}
    /\ \A f \in ElabSources(argv) : SourceExists(f)
    /\ ElabOutput(argv) # <<>>
    /\ ParentDirExists(ElabOutput(argv))

\* Files named by the model: what an elaborator may write, what is loaded.
FileNames == OutPaths \cup { ElabOutput(ShellSplit(BuildCommand(s, o))) :
                               s \in SrcPaths, o \in OutPaths }

\* A markup document records the invocation whose elaborator wrote it and
\* whether it is well-formed; NoFile is the absent file, the empty document.
NoFile == [writer |-> 0, wellFormed |-> FALSE]

\* Wait status as std::system returns it: the exit code in bits 8..15, the
\* terminating signal in the low bits.
WaitStatus(exitCode, signal) == IF signal # 0 THEN signal ELSE exitCode * 256

\* How a child can end: <<exit code, signal, stderr has diagnostic lines>>.
Outcomes(argv) ==
    IF ElabCanSucceed(argv)
    THEN { [exit |-> 0, sig |-> 0, diag |-> FALSE],    \* elaborated
           [exit |-> 1, sig |-> 0, diag |-> TRUE],     \* %Error: lines
           [exit |-> 0, sig |-> 6, diag |-> FALSE] }   \* aborted
    ELSE { [exit |-> 1, sig |-> 0, diag |-> TRUE] }

NoOutcome == [exit |-> 0, sig |-> 0, diag |-> FALSE]

\* -------------------------------------------------------------------- state

VARIABLES
    verilogFile,   \* per invocation: argument verilogFile
    astXmlFile,    \* per invocation: argument astXmlFile
    pc,            \* per invocation: position in the driver
    cmd,           \* per invocation: local cmd of runVerilatorAST
    argv,          \* per invocation: words the child was started with
    child,         \* per invocation: "none", "running", "exited", "reaped"
    hangs,         \* per invocation: the child never exits on its own
    outcome,       \* per invocation: how the child ended
    ret,           \* per invocation: local ret of runVerilatorAST
    retval,        \* per invocation: "unset", "true", "false"
    exitCode,      \* per invocation: value returned by the driver, -1 if none
    spawned,       \* per invocation: number of children started
    loads,         \* per invocation: number of LoadFile calls
    fs,            \* the filesystem: file name -> document or NoFile
    astDoc,        \* the file-scope tinyxml2::XMLDocument of line 23
    raced,         \* per invocation: its LoadFile overlapped another one
    cerr           \* per invocation: last line written to std::cerr

\* The state of the elaboration driver.
pvars == << verilogFile, astXmlFile, pc, cmd, argv, child, hangs, outcome,
            ret, retval, exitCode, spawned, loads, fs, astDoc, raced, cerr >>

\* The sample model Vcounter8 and its testbench (src/samples/counter8).
VARIABLES
    clk,                  \* port clk
    rst_n,                \* port rst_n
    out,                  \* port out, 8 bits
    Vtrigprevexpr_clk,    \* __Vtrigprevexpr___TOP__clk__0
    Vtrigprevexpr_rst_n,  \* __Vtrigprevexpr___TOP__rst_n__0
    VactTriggered,        \* __VactTriggered: set of trigger indices
    VnbaTriggered,        \* __VnbaTriggered: set of trigger indices
    VactIterCount,        \* __VactIterCount
    VnbaIterCount,        \* __VnbaIterCount, local of ___eval
    VactContinue,         \* __VactContinue
    VnbaContinue,         \* __VnbaContinue, local of ___eval
    Vm_didInit,           \* __Vm_didInit
    cpc,                  \* position of the testbench / eval_step
    fatal,                \* "none", or the region whose VL_FATAL_MT was hit
    calls,                \* eval_step calls so far: 0, 1, or 2 for more
    phases,               \* phases run by the current eval_step call
    initRuns,             \* static/initial/settle phases run so far
    seqRuns,              \* runs of the sequential block in the current call
    callOut,              \* out when the current call began
    callEdge              \* a trigger edge was pending when the call began

cvars == << clk, rst_n, out, Vtrigprevexpr_clk, Vtrigprevexpr_rst_n,
            VactTriggered, VnbaTriggered, VactIterCount, VnbaIterCount,
            VactContinue, VnbaContinue, Vm_didInit, cpc, fatal, calls,
            phases, initRuns, seqRuns, callOut, callEdge >>

vars == << pvars, cvars >>

\* The counter model before its constructor has run: the elaboration
\* driver does not touch it.
CounterUnused ==
    /\ clk = 0 /\ rst_n = 0 /\ out = 0
    /\ Vtrigprevexpr_clk = 0 /\ Vtrigprevexpr_rst_n = 0
    /\ VactTriggered = {} /\ VnbaTriggered = {}
    /\ VactIterCount = 0 /\ VnbaIterCount = 0
    /\ VactContinue = 0 /\ VnbaContinue = 0
    /\ Vm_didInit = FALSE
    /\ cpc = "unused" /\ fatal = "none" /\ calls = 0
    /\ phases = <<>> /\ initRuns = 0 /\ seqRuns = 0
    /\ callOut = 0 /\ callEdge = FALSE

Init ==
    /\ verilogFile \in [Runs -> SrcPaths]
    /\ astXmlFile \in [Runs -> OutPaths]
    /\ pc = [r \in Runs |-> "call"]
    /\ cmd = [r \in Runs |-> <<>>]
    /\ argv = [r \in Runs |-> <<>>]
    /\ child = [r \in Runs |-> "none"]
    /\ hangs = [r \in Runs |-> FALSE]
    /\ outcome = [r \in Runs |-> NoOutcome]
    /\ ret = [r \in Runs |-> 0]
    /\ retval = [r \in Runs |-> "unset"]
    /\ exitCode = [r \in Runs |-> -1]
    /\ spawned = [r \in Runs |-> 0]
    /\ loads = [r \in Runs |-> 0]
    /\ fs = [f \in FileNames |-> NoFile]
    /\ astDoc = NoFile
    /\ raced = [r \in Runs |-> FALSE]
    /\ cerr = [r \in Runs |-> "none"]
    /\ CounterUnused

\* ------------------------------------------------------------------ actions

\* BuildCmd as it would be if cmd were a static string that each call
\* appends to instead of a fresh local.
BuildCmdAppend(r) ==
    /\ pc[r] = "call"
    /\ LET built == { o \in Runs \ {r} : cmd[o] # <<>> }
           prev == IF built = {} THEN <<>> ELSE cmd[CHOOSE o \in built : TRUE]
       IN  cmd' = [cmd EXCEPT ![r] =
                      prev \o BuildCommand(verilogFile[r], astXmlFile[r])]
    /\ pc' = [pc EXCEPT ![r] = "exec"]
    /\ UNCHANGED << verilogFile, astXmlFile, argv, child, hangs, outcome, ret,
                    retval, exitCode, spawned, loads, fs, astDoc, raced, cerr >>
    /\ UNCHANGED cvars

\* Line 24 calls runVerilatorAST; lines 9-13 build the command string.
BuildCmd(r) ==
    /\ pc[r] = "call"
    /\ cmd' = [cmd EXCEPT ![r] = BuildCommand(verilogFile[r], astXmlFile[r])]
    /\ pc' = [pc EXCEPT ![r] = "exec"]
    /\ UNCHANGED << verilogFile, astXmlFile, argv, child, hangs, outcome, ret,
                    retval, exitCode, spawned, loads, fs, astDoc, raced, cerr >>
    /\ UNCHANGED cvars

\* Line 15, first half: std::system forks the shell, which splits the
\* command and starts the elaborator; the caller blocks in waitpid.
SystemSpawn(r) ==
    /\ pc[r] = "exec"
    /\ argv' = [argv EXCEPT ![r] = ShellSplit(cmd[r])]
    /\ child' = [child EXCEPT ![r] = "running"]
    /\ spawned' = [spawned EXCEPT ![r] = @ + 1]
    /\ \E h \in BOOLEAN : hangs' = [hangs EXCEPT ![r] = h]
    /\ pc' = [pc EXCEPT ![r] = "wait"]
    /\ UNCHANGED << verilogFile, astXmlFile, cmd, outcome, ret, retval,
                    exitCode, loads, fs, astDoc, raced, cerr >>
    /\ UNCHANGED cvars

\* Line 15: std::system returns -1 when no child process can be created.
SystemForkFails(r) ==
    /\ pc[r] = "exec"
    /\ ret' = [ret EXCEPT ![r] = -1]
    /\ pc' = [pc EXCEPT ![r] = "check"]
    /\ UNCHANGED << verilogFile, astXmlFile, cmd, argv, child, hangs, outcome,
                    retval, exitCode, spawned, loads, fs, astDoc, raced, cerr >>
    /\ UNCHANGED cvars

\* The child ends on its own; an elaborator that succeeds has written its
\* markup document to the file named after --xml-output.
ChildExit(r) ==
    /\ child[r] = "running"
    /\ ~hangs[r]
    /\ \E o \in Outcomes(argv[r]) :
         /\ outcome' = [outcome EXCEPT ![r] = o]
         /\ IF o.exit = 0 /\ o.sig = 0
            THEN \E w \in BOOLEAN :
                    fs' = [fs EXCEPT ![ElabOutput(argv[r])] =
                                [writer |-> r, wellFormed |-> w]]
            ELSE fs' = fs
    /\ child' = [child EXCEPT ![r] = "exited"]
    /\ UNCHANGED << verilogFile, astXmlFile, pc, cmd, argv, hangs, ret, retval,
                    exitCode, spawned, loads, astDoc, raced, cerr >>
    /\ UNCHANGED cvars

\* SystemWait as it would be if std::system did not wait for the child:
\* the call returns while the child is still running.
SystemWaitNoHang(r) ==
    /\ pc[r] = "wait"
    /\ child[r] \in {"running", "exited"}
    /\ ret' = [ret EXCEPT ![r] = 0]
    /\ pc' = [pc EXCEPT ![r] = "check"]
    /\ UNCHANGED << verilogFile, astXmlFile, cmd, argv, child, hangs, outcome,
                    retval, exitCode, spawned, loads, fs, astDoc, raced, cerr >>
    /\ UNCHANGED cvars

\* Line 15, second half: waitpid reaps the child and std::system returns
\* its wait status, which is assigned to ret.
SystemWait(r) ==
    /\ pc[r] = "wait"
    /\ child[r] = "exited"
    /\ child' = [child EXCEPT ![r] = "reaped"]
    /\ ret' = [ret EXCEPT ![r] = WaitStatus(outcome[r].exit, outcome[r].sig)]
    /\ pc' = [pc EXCEPT ![r] = "check"]
    /\ UNCHANGED << verilogFile, astXmlFile, cmd, argv, hangs, outcome, retval,
                    exitCode, spawned, loads, fs, astDoc, raced, cerr >>
    /\ UNCHANGED cvars

\* CheckRet as it would be if a failed elaboration were tried again.
CheckRetRetry(r) ==
    /\ pc[r] = "check"
    /\ IF ret[r] # 0
       THEN /\ cerr' = [cerr EXCEPT ![r] = "Verilator failed with exit code"]
            /\ retval' = [retval EXCEPT ![r] = "false"]
            /\ pc' = [pc EXCEPT ![r] = "exec"]
       ELSE /\ retval' = [retval EXCEPT ![r] = "true"]
            /\ pc' = [pc EXCEPT ![r] = "load"]
            /\ UNCHANGED cerr
    /\ UNCHANGED << verilogFile, astXmlFile, cmd, argv, child, hangs, outcome,
                    ret, exitCode, spawned, loads, fs, astDoc, raced >>
    /\ UNCHANGED cvars

\* CheckRet as it would be if the test of ret were left out.
CheckRetIgnoresRet(r) ==
    /\ pc[r] = "check"
    /\ retval' = [retval EXCEPT ![r] = "true"]
    /\ pc' = [pc EXCEPT ![r] = "load"]
    /\ UNCHANGED << verilogFile, astXmlFile, cmd, argv, child, hangs, outcome,
                    ret, exitCode, spawned, loads, fs, astDoc, raced, cerr >>
    /\ UNCHANGED cvars

\* Lines 16-22 and the driver's branch of lines 24 and 34-37: a non-zero
\* ret is reported on std::cerr, runVerilatorAST returns false and the
\* driver returns 1; otherwise it returns true and the driver goes on to
\* line 26.
CheckRet(r) ==
    /\ pc[r] = "check"
    /\ IF ret[r] # 0
       THEN /\ cerr' = [cerr EXCEPT ![r] = "Verilator failed with exit code"]
            /\ retval' = [retval EXCEPT ![r] = "false"]
            /\ exitCode' = [exitCode EXCEPT ![r] = 1]
            /\ pc' = [pc EXCEPT ![r] = "failed"]
       ELSE /\ retval' = [retval EXCEPT ![r] = "true"]
            /\ pc' = [pc EXCEPT ![r] = "load"]
            /\ UNCHANGED << cerr, exitCode >>
    /\ UNCHANGED << verilogFile, astXmlFile, cmd, argv, child, hangs, outcome,
                    ret, spawned, loads, fs, astDoc, raced >>
    /\ UNCHANGED cvars

\* Line 26, first half: astDoc.LoadFile clears the document before it
\* reads the file.  astDoc is shared by every invocation and unguarded, so
\* a LoadFile that overlaps another one is a data race.
LoadFileBegin(r) ==
    /\ pc[r] = "load"
    /\ loads' = [loads EXCEPT ![r] = @ + 1]
    /\ astDoc' = NoFile
    /\ raced' = [x \in Runs |->
                   IF x = r THEN \E o \in Runs \ {r} : pc[o] = "loading"
                            ELSE raced[x] \/ pc[x] = "loading"]
    /\ pc' = [pc EXCEPT ![r] = "loading"]
    /\ UNCHANGED << verilogFile, astXmlFile, cmd, argv, child, hangs, outcome,
                    ret, retval, exitCode, spawned, fs, cerr >>
    /\ UNCHANGED cvars

\* What LoadFile leaves in the document for the file it read.
Parsed(doc) == IF doc.wellFormed THEN doc ELSE NoFile

\* The documents a LoadFile of invocation r can leave in astDoc, with the
\* error it reports: the parse of its own file, or, after a data race,
\* any document an overlapping LoadFile produced, with any error value.
LoadResults(r) ==
    IF raced[r]
    THEN { [doc |-> d, err |-> e] :
             d \in {NoFile} \cup { Parsed(fs[astXmlFile[x]]) : x \in Runs },
             e \in BOOLEAN }
    ELSE { [doc |-> Parsed(fs[astXmlFile[r]]),
            err |-> ~fs[astXmlFile[r]].wellFormed] }

\* LoadFileEnd as it would be if a file that cannot be loaded were removed.
LoadFileEndCleanup(r) ==
    /\ pc[r] = "loading"
    /\ \E res \in LoadResults(r) :
         /\ astDoc' = res.doc
         /\ IF res.err
            THEN /\ cerr' = [cerr EXCEPT ![r] = "Error: could not load AST XML"]
                 /\ exitCode' = [exitCode EXCEPT ![r] = 1]
                 /\ fs' = [fs EXCEPT ![astXmlFile[r]] = NoFile]
                 /\ pc' = [pc EXCEPT ![r] = "failed"]
            ELSE /\ pc' = [pc EXCEPT ![r] = "done"]
                 /\ UNCHANGED << cerr, exitCode, fs >>
    /\ raced' = [raced EXCEPT ![r] = FALSE]
    /\ UNCHANGED << verilogFile, astXmlFile, cmd, argv, child, hangs, outcome,
                    ret, retval, spawned, loads >>
    /\ UNCHANGED cvars

\* Lines 26-33: LoadFile finishes; an error is reported on std::cerr and
\* the driver returns 1, otherwise the driver goes on with the document.
LoadFileEnd(r) ==
    /\ pc[r] = "loading"
    /\ \E res \in LoadResults(r) :
         /\ astDoc' = res.doc
         /\ IF res.err
            THEN /\ cerr' = [cerr EXCEPT ![r] = "Error: could not load AST XML"]
                 /\ exitCode' = [exitCode EXCEPT ![r] = 1]
                 /\ pc' = [pc EXCEPT ![r] = "failed"]
            ELSE /\ pc' = [pc EXCEPT ![r] = "done"]
                 /\ UNCHANGED << cerr, exitCode >>
    /\ raced' = [raced EXCEPT ![r] = FALSE]
    /\ UNCHANGED << verilogFile, astXmlFile, cmd, argv, child, hangs, outcome,
                    ret, retval, spawned, loads, fs >>
    /\ UNCHANGED cvars

Next ==
    \E r \in Runs :
        \/ BuildCmd(r)
        \/ SystemSpawn(r)
        \/ SystemForkFails(r)
        \/ ChildExit(r)
        \/ SystemWait(r)
        \/ CheckRet(r)
        \/ LoadFileBegin(r)
        \/ LoadFileEnd(r)

Spec == Init /\ [][Next]_vars

\* The scheduler runs every thread that can take a step, and a child that
\* does not hang ends.
FairSpec == Spec /\ \A r \in Runs :
    /\ WF_vars(BuildCmd(r))
    /\ WF_vars(SystemSpawn(r) \/ SystemForkFails(r))
    /\ WF_vars(ChildExit(r))
    /\ WF_vars(SystemWait(r))
    /\ WF_vars(CheckRet(r))
    /\ WF_vars(LoadFileBegin(r))
    /\ WF_vars(LoadFileEnd(r))

\* ------------------------------------------------------------------- stages

\* The stage of the pipeline an invocation is in, read off its position:
\* before the call it is configured, with the command built it is about to
\* spawn, inside std::system and the test of ret it elaborates, inside
\* LoadFile it parses the markup.
Stage(p) ==
    CASE p = "call" -> "Configured"
      [] p = "exec" -> "Spawning"
      [] p \in {"wait", "check"} -> "Elaborating"
      [] p \in {"load", "loading"} -> "ParsingMarkup"
      [] p = "done" -> "Done"
      [] p = "failed" -> "Failed"

StageRank(st) ==
    CASE st = "Configured" -> 0
      [] st = "Spawning" -> 1
      [] st = "Elaborating" -> 2
      [] st = "ParsingMarkup" -> 3
      [] st = "BuildingTree" -> 4
      [] st \in {"Done", "Failed"} -> 5

Terminal == {"done", "failed"}

\* The elaborator call of an invocation has returned.
Returned(r) == pc[r] \in {"check", "load", "loading", "done", "failed"}

\* The configuration of an invocation fails pre-flight validation.
InvalidConfig(r) ==
    \/ ~SourceExists(verilogFile[r])
    \/ ~ParentDirExists(astXmlFile[r])

\* What the caller gets back from an invocation: the bool of
\* runVerilatorAST and the value the driver returns.
Observed(r) == << retval[r], exitCode[r] >>

\* ------------------------------------------------------------------- claims

\* C1: the command handed to the elaborator is verilator, --xml-only,
\* --xml-output, the output path, -Wno-fatal, and the source path as the
\* very last argument; no flag comes after the source path.
C1_SourcePathLast ==
    \A r \in Runs :
        child[r] # "none" =>
            argv[r] = << <<"verilator">>, <<"--xml-only">>, <<"--xml-output">>,
                         astXmlFile[r], <<"-Wno-fatal">>, verilogFile[r] >>

\* C2: no shell is involved: every argument reaches the child as exactly
\* one word, whatever characters the paths contain.
C2_OneWordPerArgument ==
    \A r \in Runs :
        child[r] # "none" =>
            /\ Len(argv[r]) = Len(ArgList(verilogFile[r], astXmlFile[r]))
            /\ \E i \in 1..Len(argv[r]) : argv[r][i] = astXmlFile[r]
            /\ \E i \in 1..Len(argv[r]) : argv[r][i] = verilogFile[r]

\* C3: an invocation whose source path does not exist, or whose output
\* path has no parent directory, ends as failed and never spawns a child.
C3_NoSpawnOnInvalidConfig ==
    \A r \in Runs :
        InvalidConfig(r) =>
            /\ spawned[r] = 0 /\ child[r] = "none"
            /\ pc[r] \in Terminal => pc[r] = "failed"

C5_FailFast ==
    \A r \in Runs :
        /\ spawned[r] <= 1
        /\ loads[r] <= 1
        /\ loads[r] > 0 =>
              /\ child[r] = "reaped"
              /\ outcome[r].exit = 0 /\ outcome[r].sig = 0
              /\ ret[r] = 0
        /\ (Returned(r) /\ ret[r] # 0) => loads[r] = 0 /\ pc[r] # "done"

\* One invocation failed in the elaborator and loaded nothing while
\* another one, whose elaborator succeeded, loaded its markup.
C5_Witness ==
    \E r1, r2 \in Runs :
        /\ pc[r1] = "failed" /\ ret[r1] # 0 /\ spawned[r1] = 1 /\ loads[r1] = 0
        /\ loads[r2] = 1 /\ ret[r2] = 0

\* C6: the two kinds of failed elaboration, with and without diagnostic
\* lines on stderr, are told apart by what the caller gets back.
C6_FailuresDistinguishable ==
    \A r1, r2 \in Runs :
        ( /\ pc[r1] = "failed" /\ pc[r2] = "failed"
          /\ child[r1] = "reaped" /\ child[r2] = "reaped"
          /\ ret[r1] # 0 /\ ret[r2] # 0
          /\ outcome[r1].diag /\ ~outcome[r2].diag )
        => Observed(r1) # Observed(r2)

\* C7: the value the driver returns names the failure class: 2 for a
\* configuration error, 3 for a failed elaboration, 4 for a markup that
\* cannot be loaded, and 0 only for a run that succeeded.
C7_ExitCodeByClass ==
    \A r \in Runs :
        /\ exitCode[r] = 0 => pc[r] = "done"
        /\ (pc[r] = "failed" /\ spawned[r] = 1) =>
              exitCode[r] = IF InvalidConfig(r) THEN 2
                            ELSE IF loads[r] = 0 THEN 3 ELSE 4

\* C8: a child that never exits on its own does not block the invocation
\* for ever: the child is terminated and the invocation returns.
C8_HungChildReturns ==
    \A r \in Runs :
        (pc[r] = "wait" /\ hangs[r]) ~> (pc[r] \in Terminal)

\* C9: when the elaborator call has returned, the child it spawned has
\* exited and been reaped.
C9_ChildReaped ==
    \A r \in Runs :
        Returned(r) =>
            \/ spawned[r] = 0 /\ child[r] = "none"
            \/ spawned[r] = 1 /\ child[r] = "reaped"

\* The call has returned from a child that was spawned, on the failing
\* path in one invocation and on the successful path in another.
C9_Witness ==
    \E r1, r2 \in Runs :
        /\ pc[r1] = "failed" /\ spawned[r1] = 1 /\ child[r1] = "reaped"
        /\ pc[r2] = "load" /\ spawned[r2] = 1 /\ child[r2] = "reaped"

\* C10: an invocation whose output path no other invocation uses ends
\* with the markup document its own elaborator wrote.
C10_NoInterference ==
    \A r \in Runs :
        ( /\ pc[r] = "done"
          /\ \A o \in Runs \ {r} : astXmlFile[o] # astXmlFile[r] )
        => astDoc = fs[astXmlFile[r]] /\ astDoc.writer = r

\* C11: the command contains -Wno-fatal exactly when the option
\* suppress_fatal_warnings is true; the command the code builds is the
\* same whatever the value of the option.
C11_FlagIffSuppress ==
    \A suppress \in BOOLEAN :
        \A r \in Runs :
            child[r] # "none" =>
                ((\E i \in 1..Len(argv[r]) : argv[r][i] = <<"-Wno-fatal">>)
                    <=> suppress)

C13_FailurePreservesMarkup ==
    [][\A r \in Runs :
          (pc[r] # "failed" /\ pc'[r] = "failed") => fs' = fs
      ]_vars

\* An invocation failed to load the markup its elaborator wrote, and the
\* file is still on disk.
C13_Witness ==
    \E r \in Runs :
        /\ pc[r] = "failed" /\ loads[r] = 1
        /\ fs[astXmlFile[r]].writer = r /\ ~fs[astXmlFile[r]].wellFormed

\* ------------------------------------------------------- the counter sample

\* 0x64, the iteration count above which a region "did not converge".  An
\* iteration count is incremented only while it is at most this limit, so
\* the 32-bit counters never wrap.
ConvergeLimit == 100

\* The value VL_RAND_RESET_I(w) can give: any value of w bits.
RandReset(w) == IF w = 1 THEN 0..1 ELSE 0..255

\* The elaboration driver at rest: the counter sample does not touch it.
PipelineUnused ==
    /\ verilogFile = [r \in Runs |-> <<"design.v">>]
    /\ astXmlFile = [r \in Runs |-> <<"ast.xml">>]
    /\ pc = [r \in Runs |-> "call"]
    /\ cmd = [r \in Runs |-> <<>>]
    /\ argv = [r \in Runs |-> <<>>]
    /\ child = [r \in Runs |-> "none"]
    /\ hangs = [r \in Runs |-> FALSE]
    /\ outcome = [r \in Runs |-> NoOutcome]
    /\ ret = [r \in Runs |-> 0]
    /\ retval = [r \in Runs |-> "unset"]
    /\ exitCode = [r \in Runs |-> -1]
    /\ spawned = [r \in Runs |-> 0]
    /\ loads = [r \in Runs |-> 0]
    /\ fs = [f \in FileNames |-> NoFile]
    /\ astDoc = NoFile
    /\ raced = [r \in Runs |-> FALSE]
    /\ cerr = [r \in Runs |-> "none"]

\* new Vcounter8: ___ctor_var_reset gives every signal a reset value, the
\* trigger vectors are empty and __Vm_didInit is false.
CounterInit ==
    /\ PipelineUnused
    /\ clk \in RandReset(1)
    /\ rst_n \in RandReset(1)
    /\ out \in RandReset(8)
    /\ Vtrigprevexpr_clk \in RandReset(1)
    /\ Vtrigprevexpr_rst_n \in RandReset(1)
    /\ VactTriggered = {} /\ VnbaTriggered = {}
    /\ VactIterCount = 0 /\ VnbaIterCount = 0
    /\ VactContinue = 0 /\ VnbaContinue = 0
    /\ Vm_didInit = FALSE
    /\ cpc = "idle" /\ fatal = "none" /\ calls = 0
    /\ phases = <<>> /\ initRuns = 0 /\ seqRuns = 0
    /\ callOut = out /\ callEdge = FALSE

\* ___eval_triggers__act: trigger 0 is @(posedge clk), trigger 1 is
\* @(negedge rst_n), each against the value recorded at the previous
\* evaluation of the triggers.
EvalTriggersAct(c, r, prevC, prevR) ==
    (IF c = 1 /\ prevC = 0 THEN {0} ELSE {})
        \cup (IF r = 0 /\ prevR = 1 THEN {1} ELSE {})

\* The sequential block as it would be without the 0xff mask.
NbaSequentNoMask(o, r) == IF r # 0 THEN 1 + o ELSE 0

\* ___nba_sequent__TOP__0: out = rst_n ? (0xff & (1 + out)) : 0.
NbaSequent(o, r) == IF r # 0 THEN (1 + o) % 256 ELSE 0

\* ___eval_nba: the sequential block runs when trigger 0 or 1 is set.
EvalNbaRuns(trig) == trig \cap {0, 1} # {}

\* The testbench writes the input ports and calls eval (lines 17-19 of
\* tb_counter8.cpp with rst_n = 0, clk = 0; lines 22-27 with rst_n = 1 and
\* clk toggled).
TbDrive ==
    /\ cpc = "idle"
    /\ \E c \in 0..1, r \in 0..1 :
         /\ clk' = c
         /\ rst_n' = r
         /\ callEdge' = (EvalTriggersAct(c, r, Vtrigprevexpr_clk,
                                         Vtrigprevexpr_rst_n) # {})
    /\ callOut' = out
    /\ calls' = IF calls < 2 THEN calls + 1 ELSE calls
    /\ phases' = <<>>
    /\ seqRuns' = 0
    /\ cpc' = "eval_step"
    /\ UNCHANGED << out, Vtrigprevexpr_clk, Vtrigprevexpr_rst_n, VactTriggered,
                    VnbaTriggered, VactIterCount, VnbaIterCount, VactContinue,
                    VnbaContinue, Vm_didInit, fatal, initRuns >>
    /\ UNCHANGED pvars

\* eval_step as it would be if the did-init flag were never set.
EvalStepBeginNoFlag ==
    /\ cpc = "eval_step"
    /\ cpc' = IF ~Vm_didInit THEN "static" ELSE "eval"
    /\ UNCHANGED << clk, rst_n, out, Vtrigprevexpr_clk, Vtrigprevexpr_rst_n,
                    VactTriggered, VnbaTriggered, VactIterCount, VnbaIterCount,
                    VactContinue, VnbaContinue, Vm_didInit, fatal, calls,
                    phases, initRuns, seqRuns, callOut, callEdge >>
    /\ UNCHANGED pvars

\* Vcounter8::eval_step, lines 53-56: on the first call the flag is set and
\* the static, initial and settle phases are run before the evaluation.
EvalStepBegin ==
    /\ cpc = "eval_step"
    /\ IF ~Vm_didInit
       THEN /\ Vm_didInit' = TRUE
            /\ cpc' = "static"
       ELSE /\ cpc' = "eval"
            /\ UNCHANGED Vm_didInit
    /\ UNCHANGED << clk, rst_n, out, Vtrigprevexpr_clk, Vtrigprevexpr_rst_n,
                    VactTriggered, VnbaTriggered, VactIterCount, VnbaIterCount,
                    VactContinue, VnbaContinue, fatal, calls, phases,
                    initRuns, seqRuns, callOut, callEdge >>
    /\ UNCHANGED pvars

\* eval_step line 58: ___eval_static has an empty body.
EvalStatic ==
    /\ cpc = "static"
    /\ phases' = Append(phases, "static")
    /\ initRuns' = initRuns + 1
    /\ cpc' = "initial"
    /\ UNCHANGED << clk, rst_n, out, Vtrigprevexpr_clk, Vtrigprevexpr_rst_n,
                    VactTriggered, VnbaTriggered, VactIterCount, VnbaIterCount,
                    VactContinue, VnbaContinue, Vm_didInit, fatal, calls,
                    seqRuns, callOut, callEdge >>
    /\ UNCHANGED pvars

\* ___eval_initial as it would be without the two assignments.
EvalInitialNoRecord ==
    /\ cpc = "initial"
    /\ phases' = Append(phases, "initial")
    /\ initRuns' = initRuns + 1
    /\ cpc' = "settle"
    /\ UNCHANGED << clk, rst_n, out, Vtrigprevexpr_clk, Vtrigprevexpr_rst_n,
                    VactTriggered, VnbaTriggered, VactIterCount, VnbaIterCount,
                    VactContinue, VnbaContinue, Vm_didInit, fatal, calls,
                    seqRuns, callOut, callEdge >>
    /\ UNCHANGED pvars

\* eval_step line 59: ___eval_initial records the current clk and rst_n as
\* the previous values of the trigger expressions.
EvalInitial ==
    /\ cpc = "initial"
    /\ Vtrigprevexpr_clk' = clk
    /\ Vtrigprevexpr_rst_n' = rst_n
    /\ phases' = Append(phases, "initial")
    /\ initRuns' = initRuns + 1
    /\ cpc' = "settle"
    /\ UNCHANGED << clk, rst_n, out, VactTriggered, VnbaTriggered,
                    VactIterCount, VnbaIterCount, VactContinue, VnbaContinue,
                    Vm_didInit, fatal, calls, seqRuns, callOut, callEdge >>
    /\ UNCHANGED pvars

\* eval_step line 60: ___eval_settle has an empty body.
EvalSettle ==
    /\ cpc = "settle"
    /\ phases' = Append(phases, "settle")
    /\ initRuns' = initRuns + 1
    /\ cpc' = "eval"
    /\ UNCHANGED << clk, rst_n, out, Vtrigprevexpr_clk, Vtrigprevexpr_rst_n,
                    VactTriggered, VnbaTriggered, VactIterCount, VnbaIterCount,
                    VactContinue, VnbaContinue, Vm_didInit, fatal, calls,
                    seqRuns, callOut, callEdge >>
    /\ UNCHANGED pvars

\* eval_step line 63 and ___eval lines 86-87: the main evaluation begins.
EvalBegin ==
    /\ cpc = "eval"
    /\ VnbaIterCount' = 0
    /\ VnbaContinue' = 1
    /\ phases' = Append(phases, "eval")
    /\ cpc' = "nba_loop"
    /\ UNCHANGED << clk, rst_n, out, Vtrigprevexpr_clk, Vtrigprevexpr_rst_n,
                    VactTriggered, VnbaTriggered, VactIterCount, VactContinue,
                    Vm_didInit, fatal, calls, initRuns, seqRuns, callOut,
                    callEdge >>
    /\ UNCHANGED pvars

\* ___eval lines 88-98: the head of the outer loop.
NbaLoop ==
    /\ cpc = "nba_loop"
    /\ IF VnbaContinue = 0
       THEN /\ cpc' = "end"
            /\ UNCHANGED << VnbaIterCount, VnbaContinue, VactIterCount,
                            VactContinue, fatal >>
       ELSE IF ConvergeLimit < VnbaIterCount
       THEN /\ fatal' = "NBA region did not converge."
            /\ cpc' = "fatal"
            /\ UNCHANGED << VnbaIterCount, VnbaContinue, VactIterCount,
                            VactContinue >>
       ELSE /\ VnbaIterCount' = 1 + VnbaIterCount
            /\ VnbaContinue' = 0
            /\ VactIterCount' = 0
            /\ VactContinue' = 1
            /\ cpc' = "act_loop"
            /\ UNCHANGED fatal
    /\ UNCHANGED << clk, rst_n, out, Vtrigprevexpr_clk, Vtrigprevexpr_rst_n,
                    VactTriggered, VnbaTriggered, Vm_didInit, calls, phases,
                    initRuns, seqRuns, callOut, callEdge >>
    /\ UNCHANGED pvars

\* ___eval lines 99-111 with ___eval_phase__act (lines 39-55): one turn of
\* the inner loop evaluates the triggers and, when one is set, adds them to
\* the NBA triggers and asks for another turn.
ActLoop ==
    /\ cpc = "act_loop"
    /\ IF VactContinue = 0
       THEN /\ cpc' = "nba_phase"
            /\ UNCHANGED << VactIterCount, VactContinue, VactTriggered,
                            VnbaTriggered, Vtrigprevexpr_clk,
                            Vtrigprevexpr_rst_n, fatal >>
       ELSE IF ConvergeLimit < VactIterCount
       THEN /\ fatal' = "Active region did not converge."
            /\ cpc' = "fatal"
            /\ UNCHANGED << VactIterCount, VactContinue, VactTriggered,
                            VnbaTriggered, Vtrigprevexpr_clk,
                            Vtrigprevexpr_rst_n >>
       ELSE LET trig == EvalTriggersAct(clk, rst_n, Vtrigprevexpr_clk,
                                        Vtrigprevexpr_rst_n)
            IN  /\ VactIterCount' = 1 + VactIterCount
                /\ VactTriggered' = trig
                /\ Vtrigprevexpr_clk' = clk
                /\ Vtrigprevexpr_rst_n' = rst_n
                /\ VnbaTriggered' = IF trig # {}
                                    THEN VnbaTriggered \cup trig
                                    ELSE VnbaTriggered
                /\ VactContinue' = IF trig # {} THEN 1 ELSE 0
                /\ cpc' = "act_loop"
                /\ UNCHANGED fatal
    /\ UNCHANGED << clk, rst_n, out, VnbaIterCount, VnbaContinue, Vm_didInit,
                    calls, phases, initRuns, seqRuns, callOut, callEdge >>
    /\ UNCHANGED pvars

\* ___eval_phase__nba as it would be without __VnbaTriggered.clear().
EvalPhaseNbaNoClear ==
    /\ cpc = "nba_phase"
    /\ IF VnbaTriggered # {}
       THEN /\ out' = IF EvalNbaRuns(VnbaTriggered)
                      THEN NbaSequent(out, rst_n) ELSE out
            /\ seqRuns' = IF EvalNbaRuns(VnbaTriggered)
                          THEN seqRuns + 1 ELSE seqRuns
            /\ VnbaContinue' = 1
       ELSE UNCHANGED << out, seqRuns, VnbaContinue >>
    /\ cpc' = "nba_loop"
    /\ UNCHANGED << clk, rst_n, Vtrigprevexpr_clk, Vtrigprevexpr_rst_n,
                    VactTriggered, VnbaTriggered, VactIterCount, VnbaIterCount,
                    VactContinue, Vm_didInit, fatal, calls, phases, initRuns,
                    callOut, callEdge >>
    /\ UNCHANGED pvars

\* ___eval_phase__nba as it would be if ___eval_nba were called without
\* the test of __VnbaExecute and without the test of the trigger word.
EvalPhaseNbaAlways ==
    /\ cpc = "nba_phase"
    /\ out' = NbaSequent(out, rst_n)
    /\ seqRuns' = seqRuns + 1
    /\ VnbaContinue' = IF VnbaTriggered # {} THEN 1 ELSE VnbaContinue
    /\ VnbaTriggered' = {}
    /\ cpc' = "nba_loop"
    /\ UNCHANGED << clk, rst_n, Vtrigprevexpr_clk, Vtrigprevexpr_rst_n,
                    VactTriggered, VactIterCount, VnbaIterCount, VactContinue,
                    Vm_didInit, fatal, calls, phases, initRuns, callOut,
                    callEdge >>
    /\ UNCHANGED pvars

\* ___eval lines 112-114 with ___eval_phase__nba (lines 57-70) and
\* ___eval_nba (lines 16-24): when an NBA trigger is set the sequential
\* block runs, the NBA triggers are cleared and the outer loop goes on.
EvalPhaseNba ==
    /\ cpc = "nba_phase"
    /\ IF VnbaTriggered # {}
       THEN /\ out' = IF EvalNbaRuns(VnbaTriggered)
                      THEN NbaSequent(out, rst_n) ELSE out
            /\ seqRuns' = IF EvalNbaRuns(VnbaTriggered)
                          THEN seqRuns + 1 ELSE seqRuns
            /\ VnbaTriggered' = {}
            /\ VnbaContinue' = 1
       ELSE UNCHANGED << out, seqRuns, VnbaTriggered, VnbaContinue >>
    /\ cpc' = "nba_loop"
    /\ UNCHANGED << clk, rst_n, Vtrigprevexpr_clk, Vtrigprevexpr_rst_n,
                    VactTriggered, VactIterCount, VnbaIterCount, VactContinue,
                    Vm_didInit, fatal, calls, phases, initRuns, callOut,
                    callEdge >>
    /\ UNCHANGED pvars

\* eval_step line 65: the call returns to the testbench.
EvalStepEnd ==
    /\ cpc = "end"
    /\ cpc' = "idle"
    /\ UNCHANGED << clk, rst_n, out, Vtrigprevexpr_clk, Vtrigprevexpr_rst_n,
                    VactTriggered, VnbaTriggered, VactIterCount, VnbaIterCount,
                    VactContinue, VnbaContinue, Vm_didInit, fatal, calls,
                    phases, initRuns, seqRuns, callOut, callEdge >>
    /\ UNCHANGED pvars

CounterNext ==
    \/ TbDrive
    \/ EvalStepBegin
    \/ EvalStatic
    \/ EvalInitial
    \/ EvalSettle
    \/ EvalBegin
    \/ NbaLoop
    \/ ActLoop
    \/ EvalPhaseNba
    \/ EvalStepEnd

CounterSpec == CounterInit /\ [][CounterNext]_vars

\* The steps of eval_step: once called, the code runs on.
EvalSteps ==
    \/ EvalStepBegin
    \/ EvalStatic
    \/ EvalInitial
    \/ EvalSettle
    \/ EvalBegin
    \/ NbaLoop
    \/ ActLoop
    \/ EvalPhaseNba
    \/ EvalStepEnd

\* A call of eval_step keeps running until it returns or aborts; the
\* testbench may stop calling.
CounterFairSpec == CounterSpec /\ WF_vars(EvalSteps)

\* The phases of a first eval_step call, in order.
FirstCallPhases == <<"static", "initial", "settle", "eval">>

\* The current call is inside or past the main evaluation.
InMainEval == cpc \in {"nba_loop", "act_loop", "nba_phase", "end"}

\* C14: each run of the sequential block sets out to 0 when rst_n is low
\* and to out + 1, wrapping from 255 to 0, when rst_n is high; out is
\* within 0..255 in every state.
C14_SequentialBlock ==
    /\ [](out \in 0..255)
    /\ [][seqRuns' = seqRuns + 1 =>
             out' = IF rst_n = 0 THEN 0
                    ELSE IF out = 255 THEN 0 ELSE out + 1
         ]_vars

\* A rising clock edge with rst_n high found out at 255 and wrapped it.
C14_Witness ==
    /\ cpc = "end" /\ seqRuns = 1
    /\ clk = 1 /\ rst_n = 1
    /\ callOut = 255 /\ out = 0

\* C15: a call that begins with no trigger pending (no rising edge of
\* clk, no falling edge of rst_n since the previous evaluation) never
\* changes out; a later call that begins with a trigger pending runs the
\* sequential block exactly once.
C15_NoTriggerNoChange ==
    /\ (calls >= 1 /\ ~callEdge) => (out = callOut /\ seqRuns = 0)
    /\ (calls = 2 /\ callEdge /\ cpc \in {"end", "idle"}) => seqRuns = 1

\* A later call with clk low and rst_n high, hence no trigger, has
\* returned with out unchanged.
C15_Witness ==
    /\ cpc = "end" /\ calls = 2 /\ ~callEdge
    /\ clk = 0 /\ rst_n = 1
    /\ out = callOut /\ out > 0

\* C16: every call of eval converges: neither fatal is reached, the
\* inner and the outer loop take at most two turns, the sequential block
\* runs at most once per call, the NBA triggers are empty when the call
\* returns, and a call that began returns.
C16_EvalConverges ==
    /\ [](/\ fatal = "none" /\ cpc # "fatal"
          /\ VactIterCount <= 2 /\ VnbaIterCount <= 2
          /\ seqRuns <= 1
          /\ cpc \in {"end", "idle"} => VnbaTriggered = {})
    /\ (cpc = "eval_step") ~> (cpc = "idle")

\* A call in which the sequential block ran has returned after the second
\* turn of the outer loop.
C16_Witness ==
    /\ cpc = "end" /\ seqRuns = 1
    /\ VnbaIterCount = 2 /\ VactIterCount = 1
    /\ VnbaTriggered = {}

\* C17: the static, initial and settle phases run once, in that order,
\* in the first eval_step call and before its main evaluation; a later
\* call runs the main evaluation only; the did-init flag is never cleared.
C17_InitPhasesOnce ==
    /\ [](/\ initRuns <= 3
          /\ Len(phases) <= Len(FirstCallPhases)
          /\ calls = 1 => phases = SubSeq(FirstCallPhases, 1, Len(phases))
          /\ (calls = 1 /\ InMainEval) => phases = FirstCallPhases
          /\ calls = 2 => phases \in {<<>>, <<"eval">>}
          /\ (calls = 2 /\ InMainEval) => (phases = <<"eval">> /\ initRuns = 3)
          /\ InMainEval => Vm_didInit)
    /\ [][Vm_didInit => Vm_didInit']_vars

\* A later call has run its main evaluation and nothing else.
C17_Witness ==
    /\ calls = 2 /\ cpc = "end"
    /\ phases = <<"eval">> /\ initRuns = 3 /\ Vm_didInit

\* C18: the first eval_step call never runs the sequential block: its
\* main evaluation starts with the current clk and rst_n recorded as the
\* previous trigger values, and out keeps the value it had.
C18_FirstEvalKeepsOut ==
    calls = 1 =>
        /\ seqRuns = 0
        /\ out = callOut
        /\ InMainEval => (Vtrigprevexpr_clk = clk /\ Vtrigprevexpr_rst_n = rst_n)

\* The first call ran with rst_n low and clk high and returned with out
\* not reset to 0.
C18_Witness ==
    /\ calls = 1 /\ cpc = "end"
    /\ rst_n = 0 /\ clk = 1
    /\ out # 0 /\ out = callOut

====
